---- MODULE Spec2Model ----
(***************************************************************************)
(* A model of the app-info crate: the public API of src/lib.rs and the     *)
(* macOS (src/macos.rs) and Windows (src/window.rs) back ends.             *)
(*                                                                         *)
(* The operating system is the environment: the file system, the registry  *)
(* and the outcome of every native call are state fixed by Init.  Every    *)
(* function of the crate is an operator that returns the function's result *)
(* together with the log of the native calls it made, in program order.    *)
(***************************************************************************)
EXTENDS Integers, Sequences, FiniteSets, TLC

VARIABLES
    platform,   \* target_os the crate was built for
    pointerWidth, \* target_pointer_width the crate was built for
    files,      \* plain files that exist on disk
    homeSet,    \* macOS: is the HOME environment variable set
    macDirs,    \* macOS: scan directory -> "missing" | "unreadable" | listing
    registry,   \* Windows: uninstall key -> "absent" | sequence of subkeys
    winDirs,    \* Windows: install directory -> "file" | listing of file names
    iconEnv,    \* path -> outcome of the native icon calls for that path
    call,       \* the last API call and its arguments
    result,     \* the value the last API call returned
    events      \* the native calls the last API call made, in order

vars == <<platform, pointerWidth, files, homeSet, macDirs, registry, winDirs, iconEnv,
          call, result, events>>

env == <<platform, pointerWidth, files, homeSet, macDirs, registry, winDirs, iconEnv>>

-----------------------------------------------------------------------------
(* Bounds *)

MaxSize == 2        \* largest icon size requested
MaxApps == 2        \* most bundles / registry subkeys installed in a world
MaxFiles == 3       \* most files in an install directory

-----------------------------------------------------------------------------
(* Results and logs *)

Ok(v) == [ok |-> TRUE, val |-> v]

Err(kind, detail) == [ok |-> FALSE, err |-> [kind |-> kind, detail |-> detail]]

FileIconErr(which) == Err("FileIconError", which)

Ev(op, arg) == [op |-> op, arg |-> arg]

Out(r, ev) == [r |-> r, ev |-> ev]

\* The outcome o of a step, with the log that preceded it put in front
After(log, o) == Out(o.r, log \o o.ev)

RECURSIVE Reverse(_)
Reverse(s) == IF s = <<>> THEN <<>> ELSE Reverse(Tail(s)) \o <<Head(s)>>

RECURSIVE CountOp(_, _)
CountOp(log, op) ==
    IF log = <<>> THEN 0
    ELSE (IF Head(log).op = op THEN 1 ELSE 0) + CountOp(Tail(log), op)

Prefix(log, n) == SubSeq(log, 1, n)

-----------------------------------------------------------------------------
(* Strings.  A Rust String is a TLA+ string; a char is a string of length 1 *)

UpperAscii == "ABCDEFGHIJKLMNOPQRSTUVWXYZ"
LowerAscii == "abcdefghijklmnopqrstuvwxyz"

CharAt(s, i) == SubSeq(s, i, i)

IndexIn(c, alphabet) ==
    IF \E i \in 1..Len(alphabet) : CharAt(alphabet, i) = c
    THEN CHOOSE i \in 1..Len(alphabet) : CharAt(alphabet, i) = c
    ELSE 0

\* A sample of the Unicode case table beyond ASCII.  Strings of the model are
\* ASCII, so "^" stands for U+00C9 (E acute, upper case) and "~" for U+00E9
\* (e acute, lower case)
UpperOther == "^"
LowerOther == "~"

Chars(alphabet) == {CharAt(alphabet, i) : i \in 1..Len(alphabet)}

\* The case tables as functions from a char to its counterpart
AsciiLowerOf == [c \in Chars(UpperAscii) |-> CharAt(LowerAscii, IndexIn(c, UpperAscii))]

AsciiUpperOf == [c \in Chars(LowerAscii) |-> CharAt(UpperAscii, IndexIn(c, LowerAscii))]

OtherLowerOf == [c \in Chars(UpperOther) |-> CharAt(LowerOther, IndexIn(c, UpperOther))]

OtherUpperOf == [c \in Chars(LowerOther) |-> CharAt(UpperOther, IndexIn(c, LowerOther))]

\* u8::to_ascii_lowercase, char by char: only A-Z are folded
AsciiLowerChar(c) == IF c \in DOMAIN AsciiLowerOf THEN AsciiLowerOf[c] ELSE c

\* char::to_lowercase
ToLowerChar(c) ==
    IF c \in DOMAIN AsciiLowerOf THEN AsciiLowerOf[c]
    ELSE IF c \in DOMAIN OtherLowerOf THEN OtherLowerOf[c] ELSE c

\* char::to_uppercase
ToUpperChar(c) ==
    IF c \in DOMAIN AsciiUpperOf THEN AsciiUpperOf[c]
    ELSE IF c \in DOMAIN OtherUpperOf THEN OtherUpperOf[c] ELSE c

RECURSIVE to_lowercase(_)
to_lowercase(s) ==
    IF s = "" THEN "" ELSE ToLowerChar(CharAt(s, 1)) \o to_lowercase(SubSeq(s, 2, Len(s)))

RECURSIVE to_uppercase(_)
to_uppercase(s) ==
    IF s = "" THEN "" ELSE ToUpperChar(CharAt(s, 1)) \o to_uppercase(SubSeq(s, 2, Len(s)))

\* str::eq_ignore_ascii_case as used by find_app_by_name
eq_ignore_ascii_case(a, b) ==
    /\ Len(a) = Len(b)
    /\ \A i \in 1..Len(a) : AsciiLowerChar(CharAt(a, i)) = AsciiLowerChar(CharAt(b, i))

\* str::contains and str::starts_with
contains(s, pat) ==
    \E i \in 1..(Len(s) - Len(pat) + 1) : SubSeq(s, i, i + Len(pat) - 1) = pat

starts_with(s, pat) ==
    Len(pat) <= Len(s) /\ SubSeq(s, 1, Len(pat)) = pat

\* Path::extension and Path::file_stem of a file name: split at the last dot,
\* unless the name has no dot or only a leading one
LastDot(name) ==
    IF \E i \in 1..Len(name) : CharAt(name, i) = "."
    THEN CHOOSE i \in 1..Len(name) :
            /\ CharAt(name, i) = "."
            /\ \A j \in (i + 1)..Len(name) : CharAt(name, j) # "."
    ELSE 0

None == [some |-> FALSE]
Some(v) == [some |-> TRUE, v |-> v]

extension(name) ==
    IF LastDot(name) <= 1 THEN None
    ELSE Some(SubSeq(name, LastDot(name) + 1, Len(name)))

file_stem(name) ==
    IF LastDot(name) <= 1 THEN name
    ELSE SubSeq(name, 1, LastDot(name) - 1)

-----------------------------------------------------------------------------
(* Icon extraction *)

Failed == FileIconErr("Failed")

Icon(width, height, pixels) == [width |-> width, height |-> height, pixels |-> pixels]

\* The bytes the operating system rendered for an icon, in its native channel
\* order; seed selects one of a few bitmaps whose bytes all differ in a pixel
SrcByte(seed, i) == (seed + 7 * i) % 256

SrcBitmap(seed, n) == [i \in 1..n |-> SrcByte(seed, i)]

\* vec![0u8; n] followed by CopyPixels into it: the buffer keeps its length.
\* (Every product below stays under 2^31 for the sizes of the model, so usize
\* arithmetic does not wrap on either pointer width.)
CopyPixels(seed, buffer) == [i \in 1..Len(buffer) |-> SrcByte(seed, i)]

\* for chunk in pixels.chunks_exact_mut(4) { chunk.swap(0, 2) }
SwapNothing(pixels) == pixels

SwapChunks(pixels) ==
    [i \in 1..Len(pixels) |->
        IF (i - 1) \div 4 >= Len(pixels) \div 4 THEN pixels[i]
        ELSE IF (i - 1) % 4 = 0 THEN pixels[i + 2]
        ELSE IF (i - 1) % 4 = 2 THEN pixels[i - 2]
        ELSE pixels[i]]

\* size as usize * size as usize * 4
WinBufferLenNoAlpha(size) == size * size * 3

WinBufferLen(size) == size * size * 4

IsOkHresult(hr) == hr \in {"S_OK", "S_FALSE"}

\* WinScope with the values dropped in declaration order
WinScopeDeclarationOrder(sc, upto) ==
    LET all == <<Ev("CoUninitialize", ""),
                 Ev("Release", "image_factory"),
                 Ev("DeleteObject", "bitmap"),
                 Ev("Release", "imaging_factory"),
                 Ev("Release", "wic_bitmap")>>
        live == [i \in 1..upto |-> all[i]]
        kept == SelectSeq(live, LAMBDA e :
                    e.op = "CoUninitialize" => IsOkHresult(sc.com))
    IN  kept

\* WinScope with the bitmap deleted only once every guard is live
WinScopeLeakBitmap(sc, upto) ==
    LET all == <<Ev("CoUninitialize", ""),
                 Ev("Release", "image_factory"),
                 Ev("DeleteObject", "bitmap"),
                 Ev("Release", "imaging_factory"),
                 Ev("Release", "wic_bitmap")>>
        live == [i \in 1..upto |-> all[i]]
        kept == SelectSeq(live, LAMBDA e :
                    /\ e.op = "CoUninitialize" => IsOkHresult(sc.com)
                    /\ e.op = "DeleteObject" => upto = 5)
    IN  Reverse(kept)

\* The values of window::get_file_icon that release something when dropped,
\* in declaration order: the COM token (present if CoInitialize succeeded),
\* image_factory, the DeleteObject guard, imaging_factory, wic_bitmap.  A
\* return drops the first upto of them in reverse order
WinScope(sc, upto) ==
    LET all == <<Ev("CoUninitialize", ""),
                 Ev("Release", "image_factory"),
                 Ev("DeleteObject", "bitmap"),
                 Ev("Release", "imaging_factory"),
                 Ev("Release", "wic_bitmap")>>
        live == [i \in 1..upto |-> all[i]]
        kept == SelectSeq(live, LAMBDA e :
                    e.op = "CoUninitialize" => IsOkHresult(sc.com))
    IN  Reverse(kept)

\* A fallible native call in the log: its name is suffixed by its outcome
Call(op, ok, arg) == Ev(op \o (IF ok THEN ".ok" ELSE ".err"), arg)

\* window::get_file_icon.  sc is the outcome of the native calls for path:
\* the HRESULT of CoInitialize, the call that fails (if any), the pixel format
\* the imaging factory reports and the bitmap the shell rendered
window_get_file_icon(path, size, sc) ==
    LET f == sc.fail
        e0 == <<Call("CoInitialize", IsOkHresult(sc.com), sc.com)>>
        e1 == e0 \o <<Call("SHCreateItemFromParsingName", f # "shell", path)>>
        e2 == e1 \o <<Call("GetImage", f # "getimage", ToString(size))>>
        e3 == e2 \o <<Call("CoCreateInstance", f # "cocreate", "WICImagingFactory")>>
        e4 == e3 \o <<Call("CreateBitmapFromHBITMAP", f # "frombitmap", "bitmap")>>
        e5 == e4 \o <<Call("GetPixelFormat", f # "pixelformat", sc.format)>>
        e6 == e5 \o <<Call("CopyPixels", f # "copypixels", ToString(size * 4))>>
        buffer == [i \in 1..WinBufferLen(size) |-> 0]
        copied == CopyPixels(sc.seed, buffer)
        pixels == IF sc.format = "BGRA" THEN SwapChunks(copied) ELSE copied
    IN  IF f = "shell" THEN Out(Failed, e1 \o WinScope(sc, 1))
        ELSE IF f = "getimage" THEN Out(Failed, e2 \o WinScope(sc, 2))
        ELSE IF f = "cocreate" THEN Out(Failed, e3 \o WinScope(sc, 3))
        ELSE IF f = "frombitmap" THEN Out(Failed, e4 \o WinScope(sc, 4))
        ELSE IF f = "pixelformat" THEN Out(Failed, e5 \o WinScope(sc, 5))
        ELSE IF sc.format \notin {"BGRA", "RGBA"} THEN Out(Failed, e5 \o WinScope(sc, 5))
        ELSE IF f = "copypixels" THEN Out(Failed, e6 \o WinScope(sc, 5))
        ELSE Out(Ok(Icon(size, size, pixels)), e6 \o WinScope(sc, 5))

\* NSBitmapImageRep initWithBitmapDataPlanes:... as macos::get_file_icon calls it
MacBitmapRep(size) ==
    [pixelsWide |-> size, pixelsHigh |-> size, bitsPerSample |-> 8,
     samplesPerPixel |-> 4, bytesPerRow |-> size * 4, bitsPerPixel |-> 32]

bytesPerPlane(rep) == rep.bytesPerRow * rep.pixelsHigh

\* macos::get_file_icon
macos_get_file_icon(path, size, sc) ==
    LET e0 == <<Ev("canonicalize", path)>>
        e1 == e0 \o <<Ev("iconForFile", path)>>
        rep == MacBitmapRep(size)
        e2 == e1 \o <<Ev("initWithBitmapDataPlanes", ToString(size))>>
        e3 == e2 \o <<Ev("graphicsContextWithBitmapImageRep", "")>>
        e4 == e3 \o <<Ev("drawAtPoint", ToString(size)), Ev("bitmapData", ToString(bytesPerPlane(rep)))>>
        pixels == SrcBitmap(sc.seed, bytesPerPlane(rep))
    IN  IF sc.fail = "canonicalize" THEN Out(FileIconErr("PathDoesNotExist"), e0)
        ELSE IF sc.fail = "to_str" THEN Out(Failed, e0)
        ELSE IF sc.fail = "context" THEN Out(Failed, e3)
        ELSE Out(Ok(Icon(size, size, pixels)), e4)

\* How often a platform extractor was entered: each begins with one call
ExtractorCalls(log) ==
    CountOp(log, "CoInitialize.ok") + CountOp(log, "CoInitialize.err")
        + CountOp(log, "canonicalize")

-----------------------------------------------------------------------------
(* The file system as the crate observes it *)

Join(dir, name, sep) == dir \o sep \o name

MacHome == "/Users/me"

\* The directories macos::get_installed_apps scans, in order
ScanDirs == <<"/Applications", "/System/Applications", Join(MacHome, "Applications", "/")>>

\* A directory of the model: kind is "missing", "unreadable" (read_dir fails),
\* "file" (exists but is no directory) or "dir" with its listing in OS order
Dir(kind, list) == [kind |-> kind, list |-> list]

\* Path::exists
PathExists(path) ==
    \/ path \in files
    \/ \E i \in 1..3 :
         /\ path = ScanDirs[i]
         /\ macDirs[ScanDirs[i]].kind # "missing"
    \/ \E i \in 1..3 :
         \E k \in 1..Len(macDirs[ScanDirs[i]].list) :
            path = Join(ScanDirs[i], macDirs[ScanDirs[i]].list[k].file, "/")
    \/ path \in DOMAIN winDirs
    \/ \E d \in DOMAIN winDirs :
         \E k \in 1..Len(winDirs[d].list) : path = Join(d, winDirs[d].list[k], "\\")

-----------------------------------------------------------------------------
(* src/macos.rs: discovery *)

AppInfo(name, version, path, icon, identifier, publisher, install_date) ==
    [name |-> name, version |-> version, path |-> path, icon |-> icon,
     identifier |-> identifier, publisher |-> publisher,
     install_date |-> install_date]

\* Stands for a unit of an OsStr that is not valid Unicode
InvalidUnit == "?"

\* OsStr::to_str
to_str(s) == IF contains(s, InvalidUnit) THEN None ELSE Some(s)

\* A property list value, and Value::as_string
PString(s) == [kind |-> "string", s |-> s]
PInteger == [kind |-> "integer", s |-> ""]

as_string(v) == IF v.kind = "string" THEN Some(v.s) ELSE None

\* Dictionary::get
DictGet(d, key) == IF key \in DOMAIN d THEN Some(d[key]) ELSE None

\* The Info.plist of a bundle: state is "missing", "unreadable" (fs::read
\* fails), "malformed" (plist::from_bytes fails) or "parsed" with its root
Plist(state, root, d) == [state |-> state, root |-> root, d |-> d]

\* Result::ok on an extraction outcome
OkIcon(r) == IF r.ok THEN Some(r.val) ELSE None

\* The name expression of parse_app_bundle
BundleName(d, file) ==
    LET primary == DictGet(d, "CFBundleDisplayName")
        chosen == IF primary.some THEN primary ELSE DictGet(d, "CFBundleName")
        str == IF chosen.some THEN as_string(chosen.v) ELSE None
        stem == to_str(file_stem(file))
    IN  IF str.some THEN str.v
        ELSE IF stem.some THEN stem.v ELSE "Unknown"

StringKey(d, key) ==
    LET v == DictGet(d, key)
    IN  IF v.some THEN as_string(v.v) ELSE None

\* macos::parse_app_bundle with the icon fetched whatever icon_size is
parse_app_bundle_always_icon(dir, entry, icon_size) ==
    LET app_path == Join(dir, entry.file, "/")
        e0 == <<Ev("exists", Join(app_path, "Contents/Info.plist", "/"))>>
        e1 == e0 \o <<Ev("read", Join(app_path, "Contents/Info.plist", "/"))>>
        d == entry.plist.d
        App(icon, log) ==
            Out(Ok(AppInfo(BundleName(d, entry.file),
                           StringKey(d, "CFBundleShortVersionString"),
                           app_path, icon,
                           StringKey(d, "CFBundleIdentifier"), None, None)),
                e1 \o log)
        Extracted(ic) == App(OkIcon(ic.r), ic.ev)
    IN  IF entry.plist.state = "missing"
        THEN Out(Err("BundleParseError", app_path), e0)
        ELSE IF entry.plist.state = "unreadable"
        THEN Out(Err("DirectoryReadError", app_path), e1)
        ELSE IF entry.plist.state = "malformed"
        THEN Out(Err("PlistError", "malformed"), e1)
        ELSE IF entry.plist.root # "dict"
        THEN Out(Err("PlistError", "Invalid plist format"), e1)
        ELSE Extracted(macos_get_file_icon(app_path, icon_size, iconEnv[app_path]))

\* macos::parse_app_bundle
parse_app_bundle(dir, entry, icon_size) ==
    LET app_path == Join(dir, entry.file, "/")
        e0 == <<Ev("exists", Join(app_path, "Contents/Info.plist", "/"))>>
        e1 == e0 \o <<Ev("read", Join(app_path, "Contents/Info.plist", "/"))>>
        d == entry.plist.d
        App(icon, log) ==
            Out(Ok(AppInfo(BundleName(d, entry.file),
                           StringKey(d, "CFBundleShortVersionString"),
                           app_path, icon,
                           StringKey(d, "CFBundleIdentifier"), None, None)),
                e1 \o log)
        Extracted(ic) == App(OkIcon(ic.r), ic.ev)
    IN  IF entry.plist.state = "missing"
        THEN Out(Err("BundleParseError", app_path), e0)
        ELSE IF entry.plist.state = "unreadable"
        THEN Out(Err("DirectoryReadError", app_path), e1)
        ELSE IF entry.plist.state = "malformed"
        THEN Out(Err("PlistError", "malformed"), e1)
        ELSE IF entry.plist.root # "dict"
        THEN Out(Err("PlistError", "Invalid plist format"), e1)
        ELSE IF icon_size > 0
        THEN Extracted(macos_get_file_icon(app_path, icon_size, iconEnv[app_path]))
        ELSE App(None, <<>>)

IsBundle(file) == extension(file).some /\ to_str(extension(file).v) = Some("app")

\* The loop of macos::scan_directory over the listing from entry k on, with
\* the apps and the log accumulated so far.  A failed parse aborts the scan
RECURSIVE ScanLoopAbortOnError(_, _, _, _, _)
ScanLoopAbortOnError(dir, k, icon_size, apps, log) ==
    LET list == macDirs[dir].list
        Continue(o) ==
            IF o.r.ok
            THEN ScanLoopAbortOnError(dir, k + 1, icon_size, Append(apps, o.r.val), log \o o.ev)
            ELSE After(log, o)
    IN  IF k > Len(list) THEN Out(Ok(apps), log)
        ELSE IF list[k].ioerr THEN Out(Err("DirectoryReadError", dir), log)
        ELSE IF ~IsBundle(list[k].file)
        THEN ScanLoopAbortOnError(dir, k + 1, icon_size, apps, log)
        ELSE Continue(parse_app_bundle(dir, list[k], icon_size))

\* The loop of macos::scan_directory
RECURSIVE ScanLoop(_, _, _, _, _)
ScanLoop(dir, k, icon_size, apps, log) ==
    LET list == macDirs[dir].list
        Continue(o) ==
            IF o.r.ok
            THEN ScanLoop(dir, k + 1, icon_size, Append(apps, o.r.val), log \o o.ev)
            ELSE ScanLoop(dir, k + 1, icon_size, apps, log \o o.ev)
    IN  IF k > Len(list) THEN Out(Ok(apps), log)
        ELSE IF list[k].ioerr THEN Out(Err("DirectoryReadError", dir), log)
        ELSE IF ~IsBundle(list[k].file)
        THEN ScanLoop(dir, k + 1, icon_size, apps, log)
        ELSE Continue(parse_app_bundle(dir, list[k], icon_size))

\* macos::scan_directory
scan_directory(dir, icon_size) ==
    LET e0 == <<Ev("read_dir", dir)>>
    IN  IF macDirs[dir].kind # "dir" THEN Out(Err("DirectoryReadError", dir), e0)
        ELSE ScanLoop(dir, 1, icon_size, <<>>, e0)

\* macos::get_installed_apps from scan directory i on
RECURSIVE MacScanFrom(_, _, _, _)
MacScanFrom(i, icon_size, apps, log) ==
    IF i > 3 THEN Out(Ok(apps), log)
    ELSE IF i = 3 /\ ~homeSet THEN Out(Ok(apps), log)
    ELSE LET dir == ScanDirs[i]
             e0 == log \o <<Ev("exists", dir)>>
             Continue(o) ==
                 IF o.r.ok
                 THEN MacScanFrom(i + 1, icon_size, apps \o o.r.val, e0 \o o.ev)
                 ELSE After(e0, o)
         IN  IF macDirs[dir].kind = "missing"
             THEN MacScanFrom(i + 1, icon_size, apps, e0)
             ELSE Continue(scan_directory(dir, icon_size))

macos_get_installed_apps(icon_size) == MacScanFrom(1, icon_size, <<>>, <<>>)

-----------------------------------------------------------------------------
(* src/window.rs: discovery *)

UninstallKey == "SOFTWARE\\Microsoft\\Windows\\CurrentVersion\\Uninstall"

UninstallKeyWow64 == "SOFTWARE\\WOW6432Node\\Microsoft\\Windows\\CurrentVersion\\Uninstall"

\* let mut subkey_name = [0u16; 256]
SubkeyNameCapacity == 256

\* A registry string as stored: its UTF-16 units followed by a terminator
RECURSIVE Units(_)
Units(s) == IF s = "" THEN <<>> ELSE <<CharAt(s, 1)>> \o Units(SubSeq(s, 2, Len(s)))

\* Stands for the UTF-16 unit 0
Nul == "\\0"

Wide(s) == Units(s) \o <<Nul>>

\* String::from_utf16_lossy of units that hold no terminator
RECURSIVE FromUnits(_)
FromUnits(u) == IF u = <<>> THEN "" ELSE Head(u) \o FromUnits(Tail(u))

\* window::read_registry_string on the values of an open key
read_registry_string(values, value_name) ==
    LET data == values[value_name]
        data_size == 2 * Len(data)
        wide_chars == data
        end == IF \E i \in 1..Len(wide_chars) : wide_chars[i] = Nul
               THEN (CHOOSE i \in 1..Len(wide_chars) :
                        /\ wide_chars[i] = Nul
                        /\ \A j \in 1..(i - 1) : wide_chars[j] # Nul) - 1
               ELSE Len(wide_chars)
    IN  IF value_name \notin DOMAIN values \/ data_size = 0
        THEN Err("RegistryError", "Failed to read registry value")
        ELSE Ok(FromUnits(SubSeq(wide_chars, 1, end)))

\* Result::ok on a string result
OkString(r) == IF r.ok THEN Some(r.val) ELSE None

\* The name test of the filter closure in find_main_executable
LooksLikeUninstaller(file) ==
    LET Matches(name_lower) ==
            \/ contains(name_lower, "unins")
            \/ contains(name_lower, "uninst")
            \/ contains(name_lower, "uninstall")
            \/ contains(name_lower, "remove")
            \/ starts_with(name_lower, "un")
        Test(stem) == stem.some /\ Matches(to_lowercase(stem.v))
    IN  Test(to_str(file_stem(file)))

IsExe(file) == extension(file).some /\ to_str(extension(file).v) = Some("exe")

\* window::find_main_executable that takes the first executable it meets
find_main_executable_first_exe(install_dir) ==
    IF install_dir \notin DOMAIN winDirs THEN None
    ELSE IF winDirs[install_dir].kind # "dir" THEN None
    ELSE LET Pick(exe_files) ==
                 IF exe_files # <<>> THEN Some(Join(install_dir, Head(exe_files), "\\"))
                 ELSE None
         IN  Pick(SelectSeq(winDirs[install_dir].list, IsExe))

\* window::find_main_executable
find_main_executable(install_dir) ==
    IF install_dir \notin DOMAIN winDirs THEN None
    ELSE IF winDirs[install_dir].kind # "dir" THEN None
    ELSE LET Pick(exe_files, filtered_exes) ==
                 IF filtered_exes # <<>>
                 THEN Some(Join(install_dir, Head(filtered_exes), "\\"))
                 ELSE IF exe_files # <<>>
                 THEN Some(Join(install_dir, Head(exe_files), "\\"))
                 ELSE None
             Filter(exe_files) ==
                 Pick(exe_files, SelectSeq(exe_files, LAMBDA f : ~LooksLikeUninstaller(f)))
         IN  Filter(SelectSeq(winDirs[install_dir].list, IsExe))

\* icon_str.split(',').next().unwrap_or("").trim()
FirstField(s) ==
    IF \E i \in 1..Len(s) : CharAt(s, i) = ","
    THEN SubSeq(s, 1, (CHOOSE i \in 1..Len(s) :
                          /\ CharAt(s, i) = ","
                          /\ \A j \in 1..(i - 1) : CharAt(s, j) # ",") - 1)
    ELSE s

RECURSIVE trim(_)
trim(s) ==
    IF s = "" THEN ""
    ELSE IF CharAt(s, 1) = " " THEN trim(SubSeq(s, 2, Len(s)))
    ELSE IF CharAt(s, Len(s)) = " " THEN trim(SubSeq(s, 1, Len(s) - 1))
    ELSE s

\* ResolvePath that searches the install location only when there is no
\* DisplayIcon value
ResolvePathNoFallback(display_icon_path, install_location) ==
    LET searched == IF install_location.some
                    THEN find_main_executable(install_location.v)
                    ELSE None
        Checked(path) == IF PathExists(path) THEN Some(path) ELSE None
    IN  IF display_icon_path.some THEN Checked(trim(FirstField(display_icon_path.v)))
        ELSE searched

\* The (app_path, icon_path) expression of parse_registry_app
ResolvePath(display_icon_path, install_location) ==
    LET searched == IF install_location.some
                    THEN find_main_executable(install_location.v)
                    ELSE None
        Checked(path) == IF PathExists(path) THEN Some(path) ELSE searched
    IN  IF display_icon_path.some THEN Checked(trim(FirstField(display_icon_path.v)))
        ELSE searched

\* window::parse_registry_app.  sub is the subkey that key_path names
parse_registry_app(key_path, sub, icon_size) ==
    LET eFail == <<Call("RegOpenKeyExW", FALSE, key_path)>>
        eOpen == <<Call("RegOpenKeyExW", TRUE, key_path)>>
        eClose == <<Ev("RegCloseKey", key_path)>>
        App(display_name, icon_path, icon, log) ==
            Out(Ok(AppInfo(display_name.val,
                           OkString(read_registry_string(sub.values, "DisplayVersion")),
                           IF icon_path.some THEN icon_path.v ELSE "",
                           icon,
                           None,
                           OkString(read_registry_string(sub.values, "Publisher")),
                           OkString(read_registry_string(sub.values, "InstallDate")))),
                eOpen \o log \o eClose)
        Extracted(display_name, icon_path, ic) ==
            App(display_name, icon_path, OkIcon(ic.r), ic.ev)
        Located(display_name, icon_path) ==
            IF icon_size > 0 /\ icon_path.some
            THEN Extracted(display_name, icon_path,
                           window_get_file_icon(icon_path.v, icon_size, iconEnv[icon_path.v]))
            ELSE App(display_name, icon_path, None, <<>>)
        Named(display_name) ==
            IF ~display_name.ok THEN Out(display_name, eOpen \o eClose)
            ELSE Located(display_name,
                         ResolvePath(OkString(read_registry_string(sub.values, "DisplayIcon")),
                                     OkString(read_registry_string(sub.values, "InstallLocation"))))
    IN  IF ~sub.opens
        THEN Out(Err("RegistryError", "Failed to open registry key"), eFail)
        ELSE Named(read_registry_string(sub.values, "DisplayName"))

\* The loop of window::scan_registry_key from index on; RegEnumKeyExW fails
\* past the last subkey and for a name that does not fit the buffer
RECURSIVE EnumLoop(_, _, _, _, _)
EnumLoop(key_path, index, icon_size, apps, log) ==
    LET subkeys == registry[key_path].subkeys
        sub == subkeys[index + 1]
        e0 == log \o <<Ev("RegEnumKeyExW", ToString(index))>>
        Continue(o) ==
            EnumLoop(key_path, index + 1, icon_size,
                     IF o.r.ok THEN Append(apps, o.r.val) ELSE apps,
                     e0 \o o.ev)
    IN  IF index >= Len(subkeys) THEN Out(Ok(apps), e0)
        ELSE IF Len(sub.name) + 1 > SubkeyNameCapacity THEN Out(Ok(apps), e0)
        ELSE Continue(parse_registry_app(Join(key_path, sub.name, "\\"), sub, icon_size))

\* window::scan_registry_key
scan_registry_key(key_path, icon_size) ==
    IF registry[key_path].kind = "absent"
    THEN Out(Ok(<<>>), <<Call("RegOpenKeyExW", FALSE, key_path)>>)
    ELSE LET Close(o) == Out(o.r, o.ev \o <<Ev("RegCloseKey", key_path)>>)
         IN  Close(EnumLoop(key_path, 0, icon_size, <<>>,
                            <<Call("RegOpenKeyExW", TRUE, key_path)>>))

\* window::get_installed_apps that drops from the 32-bit view the names the
\* first view already gave
window_get_installed_apps_dedup(icon_size) ==
    LET Fresh(first, apps) ==
            SelectSeq(apps, LAMBDA a :
                \A i \in 1..Len(first.r.val) : first.r.val[i].name # a.name)
        Extend(first, second) ==
            IF ~second.r.ok THEN After(first.ev, second)
            ELSE Out(Ok(first.r.val \o Fresh(first, second.r.val)), first.ev \o second.ev)
        Scan(first) ==
            IF ~first.r.ok THEN first
            ELSE IF pointerWidth # 64 THEN first
            ELSE Extend(first, scan_registry_key(UninstallKeyWow64, icon_size))
    IN  Scan(scan_registry_key(UninstallKey, icon_size))

\* window::get_installed_apps
window_get_installed_apps(icon_size) ==
    LET Extend(first, second) ==
            IF ~second.r.ok THEN After(first.ev, second)
            ELSE Out(Ok(first.r.val \o second.r.val), first.ev \o second.ev)
        Scan(first) ==
            IF ~first.r.ok THEN first
            ELSE IF pointerWidth # 64 THEN first
            ELSE Extend(first, scan_registry_key(UninstallKeyWow64, icon_size))
    IN  Scan(scan_registry_key(UninstallKey, icon_size))

-----------------------------------------------------------------------------
(* src/lib.rs *)

\* lib::get_file_icon with the size test placed before the path test
get_file_icon_size_first(path, size) ==
    LET e0 == <<Ev("exists", path)>>
    IN  IF size = 0 THEN Out(FileIconErr("NullIconSize"), <<>>)
        ELSE IF ~PathExists(path) THEN Out(FileIconErr("PathDoesNotExist"), e0)
        ELSE IF platform = "macos"
        THEN After(e0, macos_get_file_icon(path, size, iconEnv[path]))
        ELSE IF platform = "windows"
        THEN After(e0, window_get_file_icon(path, size, iconEnv[path]))
        ELSE Out(FileIconErr("PlatformNotSupported"), e0)

\* lib::get_file_icon without the path test: the native calls then fail
get_file_icon_no_path_check(path, size) ==
    LET e0 == <<>>
        missing == [com |-> "S_OK", fail |-> IF platform = "macos" THEN "canonicalize" ELSE "shell",
                    format |-> "BGRA", seed |-> 0]
        sc == IF path \in DOMAIN iconEnv THEN iconEnv[path] ELSE missing
    IN  IF size = 0 THEN Out(FileIconErr("NullIconSize"), e0)
        ELSE IF platform = "macos"
        THEN After(e0, macos_get_file_icon(path, size, sc))
        ELSE IF platform = "windows"
        THEN After(e0, window_get_file_icon(path, size, sc))
        ELSE Out(FileIconErr("PlatformNotSupported"), e0)

\* lib::get_file_icon
get_file_icon(path, size) ==
    LET e0 == <<Ev("exists", path)>>
    IN  IF ~PathExists(path) THEN Out(FileIconErr("PathDoesNotExist"), e0)
        ELSE IF size = 0 THEN Out(FileIconErr("NullIconSize"), e0)
        ELSE IF platform = "macos"
        THEN After(e0, macos_get_file_icon(path, size, iconEnv[path]))
        ELSE IF platform = "windows"
        THEN After(e0, window_get_file_icon(path, size, iconEnv[path]))
        ELSE Out(FileIconErr("PlatformNotSupported"), e0)

\* lib::get_installed_apps
get_installed_apps(icon_size) ==
    IF platform = "macos" THEN macos_get_installed_apps(icon_size)
    ELSE IF platform = "windows" THEN window_get_installed_apps(icon_size)
    ELSE Out(Err("UnsupportedPlatform", ""), <<>>)

\* apps.into_iter().find(|app| app.name.eq_ignore_ascii_case(name))
FindFirst(apps, name) ==
    LET First(hits) == IF hits # <<>> THEN Some(Head(hits)) ELSE None
    IN  First(SelectSeq(apps, LAMBDA app : eq_ignore_ascii_case(app.name, name)))

\* lib::find_app_by_name
find_app_by_name(name, icon_size) ==
    LET Found(hit, log) ==
            IF hit.some THEN Out(Ok(hit.v), log)
            ELSE Out(Err("AppNotFound", name), log)
        Search(o) ==
            IF ~o.r.ok THEN o ELSE Found(FindFirst(o.r.val, name), o.ev)
    IN  Search(get_installed_apps(icon_size))

-----------------------------------------------------------------------------
(* Inputs and environments *)

Sizes == 0..MaxSize

SrcSeeds == {0, 100}

WinFailPoints ==
    {"none", "shell", "getimage", "cocreate", "frombitmap", "pixelformat", "copypixels"}

WinScenarios ==
    [com : {"S_OK", "S_FALSE", "RPC_E_CHANGED_MODE"}, fail : WinFailPoints,
     format : {"BGRA", "RGBA", "PBGRA"}, seed : SrcSeeds]

MacFailPoints == {"none", "canonicalize", "to_str", "context"}

MacScenarios == [fail : MacFailPoints, seed : SrcSeeds]

Scenarios ==
    IF platform = "macos" THEN MacScenarios
    ELSE IF platform = "windows" THEN WinScenarios
    ELSE {[fail |-> "none", seed |-> 0]}

ProbeFile == "/probe/notepad.exe"

NoSuchFile == "/path/to/non/existent/file"

NoMacDirs == [d \in {ScanDirs[i] : i \in 1..3} |-> Dir("missing", <<>>)]

NoRegistry == <<>>

NoCall == [op |-> "none"]

\* The environment of the icon specification: one file that may exist
InitIcon ==
    /\ platform \in {"macos", "windows", "other"}
    /\ pointerWidth = 64
    /\ files \in {{}, {ProbeFile}}
    /\ homeSet = FALSE
    /\ macDirs = NoMacDirs
    /\ registry = NoRegistry
    /\ winDirs = <<>>
    /\ iconEnv \in [files -> Scenarios]
    /\ call = NoCall
    /\ result = NoCall
    /\ events = <<>>

\* A caller invokes get_file_icon(path, size); calls are synchronous, one at
\* a time
GetFileIcon ==
    /\ call = NoCall
    /\ \E path \in {ProbeFile, NoSuchFile}, size \in Sizes :
        \E o \in {get_file_icon(path, size)} :
            /\ call' = [op |-> "get_file_icon", path |-> path, size |-> size]
            /\ result' = o.r
            /\ events' = o.ev
            /\ UNCHANGED env

\* The caller drops the value it was returned; the crate keeps nothing
DropResult ==
    /\ call # NoCall
    /\ call' = NoCall
    /\ result' = NoCall
    /\ events' = <<>>
    /\ UNCHANGED env

NextIcon == GetFileIcon \/ DropResult

SpecIcon == InitIcon /\ [][NextIcon]_vars

-----------------------------------------------------------------------------
(* Claims about get_file_icon, checked under SpecIcon *)

IsFileIconCall == call.op = "get_file_icon"

C3_MissingPath ==
    (IsFileIconCall /\ call.size > 0 /\ ~PathExists(call.path)) =>
        /\ result = FileIconErr("PathDoesNotExist")
        /\ ExtractorCalls(events) = 0

C3_Witness ==
    /\ IsFileIconCall
    /\ call.size > 0
    /\ ~PathExists(call.path)
    /\ platform = "windows"
    /\ result = FileIconErr("PathDoesNotExist")

IsWinExtraction ==
    /\ IsFileIconCall
    /\ platform = "windows"
    /\ call.size > 0
    /\ PathExists(call.path)

\* C10: on Windows a BGRA source yields output with bytes 1 and 3 of every
\* pixel swapped and bytes 2 and 4 kept, an RGBA source is returned unchanged,
\* and any other reported pixel format fails with Failed
C10_PixelFormat ==
    IsWinExtraction =>
        LET sc == iconEnv[call.path]
            n == call.size * call.size
            src == SrcBitmap(sc.seed, 4 * n)
        IN  /\ (result.ok /\ sc.format = "BGRA") =>
                /\ Len(result.val.pixels) = 4 * n
                /\ \A k \in 0..(n - 1) :
                      /\ result.val.pixels[4 * k + 1] = src[4 * k + 3]
                      /\ result.val.pixels[4 * k + 3] = src[4 * k + 1]
                      /\ result.val.pixels[4 * k + 2] = src[4 * k + 2]
                      /\ result.val.pixels[4 * k + 4] = src[4 * k + 4]
            /\ (result.ok /\ sc.format = "RGBA") => result.val.pixels = src
            /\ sc.format \notin {"BGRA", "RGBA"} => result = Failed
            /\ (sc.format \in {"BGRA", "RGBA"} /\ sc.fail = "none") => result.ok

C10_Witness ==
    /\ IsWinExtraction
    /\ result.ok
    /\ iconEnv[call.path].format = "BGRA"
    /\ call.size = MaxSize
    /\ result.val.pixels[1] # result.val.pixels[3]
    /\ result.val.pixels[1] = SrcByte(iconEnv[call.path].seed, 3)

-----------------------------------------------------------------------------
(* Environments with installed applications *)

BoundedSeq(S, n) == UNION {[1..k -> S] : k \in 0..n}

OkMac == [fail |-> "none", seed |-> 0]
BadMac == [fail |-> "context", seed |-> 0]

OkWin == [com |-> "S_OK", fail |-> "none", format |-> "BGRA", seed |-> 0]
BadWin == [com |-> "S_FALSE", fail |-> "getimage", format |-> "BGRA", seed |-> 0]

NoPlist(state) == Plist(state, "none", <<>>)

Bundle(file, plist, icon) == [file |-> file, plist |-> plist, icon |-> icon, ioerr |-> FALSE]

\* Directory entries a scan directory may hold
MacPool ==
    { Bundle("Calc.app",
             Plist("parsed", "dict",
                   [k \in {"CFBundleDisplayName", "CFBundleName",
                           "CFBundleShortVersionString", "CFBundleIdentifier"} |->
                      IF k = "CFBundleDisplayName" THEN PString("Calc")
                      ELSE IF k = "CFBundleName" THEN PString("Calculator")
                      ELSE IF k = "CFBundleShortVersionString" THEN PString("1.0")
                      ELSE PString("com.example.calc")]),
             OkMac),
      Bundle("CALC2.app",
             Plist("parsed", "dict", [k \in {"CFBundleName"} |-> PString("CALC")]),
             BadMac),
      Bundle("^a.app", Plist("parsed", "dict", <<>>), OkMac),
      Bundle("Broken.app", NoPlist("missing"), OkMac),
      Bundle("Bad.app", NoPlist("malformed"), OkMac),
      Bundle("notes.txt", NoPlist("missing"), OkMac) }

Placements(pool, locations) == [loc : locations, item : pool]

\* The listing of location loc after the installs, in installation order
Listing(installs, loc) ==
    LET mine == SelectSeq(installs, LAMBDA p : p.loc = loc)
    IN  [k \in 1..Len(mine) |-> mine[k].item]

\* File and subkey names are unique within their directory or key
UniqueNames(installs) ==
    \A i, j \in 1..Len(installs) :
        (i # j /\ installs[i].loc = installs[j].loc) =>
            IF "file" \in DOMAIN installs[i].item
            THEN installs[i].item.file # installs[j].item.file
            ELSE installs[i].item.name # installs[j].item.name

MacDirsOf(installs, emptyKind) ==
    [d \in {ScanDirs[i] : i \in 1..3} |->
        IF Listing(installs, d) = <<>> THEN Dir(emptyKind, <<>>)
        ELSE Dir("dir", Listing(installs, d))]

MacIconEnvOf(installs) ==
    [p \in {Join(installs[k].loc, installs[k].item.file, "/") : k \in 1..Len(installs)} |->
        (CHOOSE k \in 1..Len(installs) :
            p = Join(installs[k].loc, installs[k].item.file, "/")) ]

InitMacApps ==
    /\ platform = "macos"
    /\ pointerWidth = 64
    /\ files = {}
    /\ homeSet \in BOOLEAN
    /\ \E installs \in BoundedSeq(Placements(MacPool, {ScanDirs[i] : i \in 1..3}), MaxApps),
          emptyKind \in {"missing", "unreadable", "dir"} :
          /\ UniqueNames(installs)
          /\ macDirs = MacDirsOf(installs, emptyKind)
          /\ iconEnv = [p \in DOMAIN MacIconEnvOf(installs) |->
                           installs[MacIconEnvOf(installs)[p]].item.icon]
    /\ registry = NoRegistry
    /\ winDirs = <<>>
    /\ call = NoCall
    /\ result = NoCall
    /\ events = <<>>

Key(kind, subkeys) == [kind |-> kind, subkeys |-> subkeys]

Subkey(name, opens, values) == [name |-> name, opens |-> opens, values |-> values]

\* Subkeys an uninstall key may hold
WinPool ==
    { Subkey("Calc", TRUE,
             [v \in {"DisplayName", "DisplayVersion", "Publisher", "InstallLocation",
                     "InstallDate", "DisplayIcon"} |->
                IF v = "DisplayName" THEN Wide("Calc")
                ELSE IF v = "DisplayVersion" THEN Wide("1.0")
                ELSE IF v = "Publisher" THEN Wide("Acme")
                ELSE IF v = "InstallLocation" THEN Wide("C:\\Calc")
                ELSE IF v = "InstallDate" THEN Wide("20240101")
                ELSE Wide("C:\\Calc\\calc.exe,0")]),
      Subkey("{1234}", TRUE,
             [v \in {"DisplayName", "InstallLocation"} |->
                IF v = "DisplayName" THEN Wide("CALC") ELSE Wide("C:\\Tool")]),
      Subkey("Ea", TRUE, [v \in {"DisplayName"} |-> Wide("^a")]),
      Subkey("NoName", TRUE, [v \in {"DisplayVersion"} |-> Wide("2.0")]),
      Subkey("Locked", FALSE, [v \in {"DisplayName"} |-> Wide("Locked")]) }

UninstallKeys == {UninstallKey, UninstallKeyWow64}

RegistryOf(installs, emptyKind) ==
    [k \in UninstallKeys |->
        IF Listing(installs, k) = <<>> THEN Key(emptyKind, <<>>)
        ELSE Key("key", Listing(installs, k))]

AppDirs ==
    ("C:\\Calc" :> Dir("dir", <<"unins000.exe", "calc.exe">>)) @@
    ("C:\\Tool" :> Dir("dir", <<"tool.exe">>))

AppIconEnv ==
    ("C:\\Calc\\calc.exe" :> OkWin) @@
    ("C:\\Calc\\unins000.exe" :> OkWin) @@
    ("C:\\Tool\\tool.exe" :> BadWin)

InitWinApps ==
    /\ platform = "windows"
    /\ pointerWidth \in {32, 64}
    /\ files = {}
    /\ homeSet = FALSE
    /\ macDirs = NoMacDirs
    /\ \E installs \in BoundedSeq(Placements(WinPool, UninstallKeys), MaxApps),
          emptyKind \in {"absent", "key"} :
          /\ UniqueNames(installs)
          /\ registry = RegistryOf(installs, emptyKind)
    /\ winDirs = AppDirs
    /\ iconEnv = AppIconEnv
    /\ call = NoCall
    /\ result = NoCall
    /\ events = <<>>

InitOther ==
    /\ platform = "other"
    /\ pointerWidth = 64
    /\ files = {}
    /\ homeSet = FALSE
    /\ macDirs = NoMacDirs
    /\ registry = NoRegistry
    /\ winDirs = <<>>
    /\ iconEnv = <<>>
    /\ call = NoCall
    /\ result = NoCall
    /\ events = <<>>

Init == InitMacApps \/ InitWinApps \/ InitOther

\* Names a caller asks find_app_by_name for
Queries == {"Calc", "calc", "CALC", "Cal", "^a", "~a", "^A", "ThisAppSurelyDoesNotExist12345"}

FindSizes == {0, 1}

\* A caller invokes get_installed_apps(icon_size)
GetInstalledApps ==
    /\ call = NoCall
    /\ \E icon_size \in Sizes :
        \E o \in {get_installed_apps(icon_size)} :
            /\ call' = [op |-> "get_installed_apps", icon_size |-> icon_size]
            /\ result' = o.r
            /\ events' = o.ev
            /\ UNCHANGED env

\* A caller invokes find_app_by_name(name, icon_size)
FindAppByName ==
    /\ call = NoCall
    /\ \E name \in Queries, icon_size \in FindSizes :
        \E o \in {find_app_by_name(name, icon_size)} :
            /\ call' = [op |-> "find_app_by_name", name |-> name, icon_size |-> icon_size]
            /\ result' = o.r
            /\ events' = o.ev
            /\ UNCHANGED env

Next == GetInstalledApps \/ FindAppByName \/ DropResult

Spec == Init /\ [][Next]_vars

-----------------------------------------------------------------------------
(* Claims about discovery and lookup, checked under Spec *)

IsFindCall == call.op = "find_app_by_name"

IsAppsCall == call.op = "get_installed_apps"

\* What discovery returns in the environment of the current state
Discovered == get_installed_apps(call.icon_size).r

\* Equality of two names up to letter case
SameIgnoringCase(a, b) == to_lowercase(a) = to_lowercase(b)

\* C4: find_app_by_name is case-insensitive: for the first app carrying a name
\* N, querying N, to_lowercase(N) or to_uppercase(N) succeeds and returns that
\* same entry
C4_CaseInsensitiveLookup ==
    (IsFindCall /\ Discovered.ok) =>
        \A i \in 1..Len(Discovered.val) :
            LET N == Discovered.val[i].name
            IN  (/\ \A j \in 1..(i - 1) : ~SameIgnoringCase(Discovered.val[j].name, N)
                 /\ call.name \in {N, to_lowercase(N), to_uppercase(N)})
                => (result.ok /\ result.val = Discovered.val[i])

\* C5: when discovery succeeds, find_app_by_name fails with AppNotFound
\* carrying the queried name exactly when no discovered name equals the whole
\* query up to letter case
C5_NotFoundIffNoMatch ==
    (IsFindCall /\ Discovered.ok) =>
        ((result = Err("AppNotFound", call.name))
            <=> (\A i \in 1..Len(Discovered.val) :
                    ~SameIgnoringCase(Discovered.val[i].name, call.name)))

\* C6: get_installed_apps(0) never calls the icon extractor and every
\* returned AppInfo has its icon unset
C6_NoIconAtSizeZero ==
    (IsAppsCall /\ call.icon_size = 0) =>
        /\ ExtractorCalls(events) = 0
        /\ result.ok => \A i \in 1..Len(result.val) : result.val[i].icon = None

C6_Witness ==
    /\ IsAppsCall
    /\ call.icon_size = 0
    /\ result.ok
    /\ Len(result.val) = MaxApps
    /\ \A i \in 1..Len(result.val) :
          result.val[i].path \in DOMAIN iconEnv /\ iconEnv[result.val[i].path].fail = "none"

\* The candidates of a scan that can be parsed, stated on the environment
MacParses(entry) ==
    /\ IsBundle(entry.file)
    /\ entry.plist.state = "parsed"
    /\ entry.plist.root = "dict"

WinParses(sub) ==
    /\ sub.opens
    /\ "DisplayName" \in DOMAIN sub.values
    /\ sub.values["DisplayName"] # <<>>

MacScanned(i) == macDirs[ScanDirs[i]].kind # "missing" /\ (i < 3 \/ homeSet)

MacScanClean ==
    \A i \in 1..3 : MacScanned(i) =>
        /\ macDirs[ScanDirs[i]].kind = "dir"
        /\ \A k \in 1..Len(macDirs[ScanDirs[i]].list) : ~macDirs[ScanDirs[i]].list[k].ioerr

MacExpectedIn(i) ==
    IF ~MacScanned(i) THEN <<>>
    ELSE LET good == SelectSeq(macDirs[ScanDirs[i]].list, MacParses)
         IN  [k \in 1..Len(good) |-> Join(ScanDirs[i], good[k].file, "/")]

WinExpectedIn(key) ==
    LET good == SelectSeq(registry[key].subkeys, WinParses)
    IN  [k \in 1..Len(good) |-> FromUnits(SubSeq(good[k].values["DisplayName"], 1,
                                                  Len(good[k].values["DisplayName"]) - 1))]

\* C7: a candidate that fails to parse is omitted and nothing else: the scan
\* succeeds and returns every candidate that parses, in scan order
C7_PartialResults ==
    IsAppsCall =>
        /\ (platform = "macos" /\ MacScanClean) =>
              /\ result.ok
              /\ [k \in 1..Len(result.val) |-> result.val[k].path]
                    = MacExpectedIn(1) \o MacExpectedIn(2) \o MacExpectedIn(3)
        /\ platform = "windows" =>
              /\ result.ok
              /\ [k \in 1..Len(result.val) |-> result.val[k].name]
                    = WinExpectedIn(UninstallKey)
                        \o (IF pointerWidth = 64 THEN WinExpectedIn(UninstallKeyWow64) ELSE <<>>)

C7_Witness ==
    /\ IsAppsCall
    /\ platform = "macos"
    /\ result.ok
    /\ Len(result.val) = 1
    /\ \E i \in 1..3 :
          LET list == macDirs[ScanDirs[i]].list
          IN  /\ MacScanned(i)
              /\ Len(list) = 2
              /\ IsBundle(list[1].file) /\ ~MacParses(list[1])
              /\ MacParses(list[2])
              /\ result.val[1].path = Join(ScanDirs[i], list[2].file, "/")

-----------------------------------------------------------------------------
(* Windows resources, checked under SpecWin: every outcome of the native     *)
(* icon calls, for a registry of a few subkeys                               *)

WinResourcePool ==
    { Subkey("Calc", TRUE,
             [v \in {"DisplayName", "DisplayIcon"} |->
                IF v = "DisplayName" THEN Wide("Calc") ELSE Wide("C:\\Calc\\calc.exe,0")]),
      Subkey("NoName", TRUE, [v \in {"DisplayVersion"} |-> Wide("2.0")]),
      Subkey("Locked", FALSE, [v \in {"DisplayName"} |-> Wide("Locked")]) }

InitWin ==
    /\ platform = "windows"
    /\ pointerWidth = 64
    /\ files = {ProbeFile}
    /\ homeSet = FALSE
    /\ macDirs = NoMacDirs
    /\ \E installs \in BoundedSeq(Placements(WinResourcePool, UninstallKeys), MaxApps),
          emptyKind \in {"absent", "key"} :
          /\ UniqueNames(installs)
          /\ registry = RegistryOf(installs, emptyKind)
    /\ winDirs = AppDirs
    /\ \E sc \in {w \in WinScenarios : w.seed = 0} :
          iconEnv = [p \in DOMAIN AppIconEnv \cup {ProbeFile} |-> sc]
    /\ call = NoCall
    /\ result = NoCall
    /\ events = <<>>

NextWin == GetInstalledApps \/ GetFileIcon \/ DropResult

SpecWin == InitWin /\ [][NextWin]_vars

\* The events of log that acquire (+1) or release (-1) the resource
Held(log, acquire, release) ==
    LET n == Len(SelectSeq(log, LAMBDA e : e \in acquire))
        m == Len(SelectSeq(log, LAMBDA e : e \in release))
    IN  n - m

\* Every acquisition in log is followed by exactly one release, nothing is
\* released that is not held, and at most one is held at a time
ReleasedOnce(log, acquire, release) ==
    /\ \A n \in 0..Len(log) : Held(Prefix(log, n), acquire, release) \in {0, 1}
    /\ Held(log, acquire, release) = 0

AllKeyPaths ==
    UninstallKeys \cup
    UNION {{Join(k, registry[k].subkeys[i].name, "\\") : i \in 1..Len(registry[k].subkeys)} :
            k \in UninstallKeys}

ComInit == {Ev("CoInitialize.ok", hr) : hr \in {"S_OK", "S_FALSE"}}

GotImage == {Ev("GetImage.ok", ToString(n)) : n \in Sizes}

\* C8: on Windows every registry key handle that was opened is closed exactly
\* once, every successful CoInitialize is matched by one CoUninitialize, every
\* bitmap GetImage returned is deleted once, on every exit path, and nothing
\* is released whose acquisition failed
C8_ReleasedExactlyOnce ==
    (platform = "windows" /\ call # NoCall) =>
        /\ \A k \in AllKeyPaths :
              ReleasedOnce(events, {Ev("RegOpenKeyExW.ok", k)}, {Ev("RegCloseKey", k)})
        /\ ReleasedOnce(events, ComInit, {Ev("CoUninitialize", "")})
        /\ ReleasedOnce(events, GotImage, {Ev("DeleteObject", "bitmap")})
        /\ CountOp(events, "RegCloseKey") = CountOp(events, "RegOpenKeyExW.ok")

C8_Witness ==
    /\ platform = "windows"
    /\ IsAppsCall
    /\ call.icon_size > 0
    /\ CountOp(events, "CoCreateInstance.err") > 0
    /\ CountOp(events, "DeleteObject") > 0
    /\ CountOp(events, "CoUninitialize") > 0
    /\ CountOp(events, "RegOpenKeyExW.err") > 0
    /\ CountOp(events, "RegCloseKey") > 2

-----------------------------------------------------------------------------
(* Executable resolution, checked under SpecExe: one registry entry whose    *)
(* InstallLocation is a directory of every shape                             *)

ToolDir == "C:\\Tool"

\* File names an install directory may hold
ExePool ==
    {"app.exe", "unins000.exe", "Uninstall.exe", "REMOVER.exe", "unity.exe",
     "sun.exe", "Setup.EXE", "readme.txt"}

DistinctSeqs(S, n) ==
    {q \in BoundedSeq(S, n) : \A i, j \in 1..Len(q) : i # j => q[i] # q[j]}

ToolKey ==
    Subkey("{1234}", TRUE,
           [v \in {"DisplayName", "InstallLocation"} |->
              IF v = "DisplayName" THEN Wide("Tool") ELSE Wide(ToolDir)])

InitExe ==
    /\ platform = "windows"
    /\ pointerWidth = 64
    /\ files = {}
    /\ homeSet = FALSE
    /\ macDirs = NoMacDirs
    /\ registry = [k \in UninstallKeys |->
                     IF k = UninstallKey THEN Key("key", <<ToolKey>>) ELSE Key("absent", <<>>)]
    /\ \/ winDirs = <<>>
       \/ winDirs = (ToolDir :> Dir("file", <<>>))
       \/ \E list \in DistinctSeqs(ExePool, MaxFiles) : winDirs = (ToolDir :> Dir("dir", list))
    /\ iconEnv = [p \in {Join(ToolDir, f, "\\") : f \in ExePool} |-> OkWin]
    /\ call = NoCall
    /\ result = NoCall
    /\ events = <<>>

NextExe == GetInstalledApps \/ DropResult

SpecExe == InitExe /\ [][NextExe]_vars

\* The files of the install directory, and the path the entry resolved to
ToolFiles ==
    IF ToolDir \in DOMAIN winDirs
    THEN {winDirs[ToolDir].list[k] : k \in 1..Len(winDirs[ToolDir].list)}
    ELSE {}

ToolExes == {f \in ToolFiles : IsExe(f)}

\* The uninstaller heuristics as the claim words them, on the lower-cased stem
NamedLikeUninstaller(f) ==
    LET n == to_lowercase(file_stem(f))
    IN  \/ contains(n, "unins")
        \/ contains(n, "uninstall")
        \/ contains(n, "remove")
        \/ starts_with(n, "un")

ToolMainExes == {f \in ToolExes : ~NamedLikeUninstaller(f)}

\* C9: the resolved executable is one of the .exe files that do not look like
\* an uninstaller when there is one, else some .exe of the directory, else none
C9_MainExecutable ==
    (IsAppsCall /\ result.ok /\ Len(result.val) = 1) =>
        LET resolved == result.val[1].path
        IN  /\ ToolMainExes # {} =>
                \E f \in ToolMainExes : resolved = Join(ToolDir, f, "\\")
            /\ (ToolMainExes = {} /\ ToolExes # {}) =>
                \E f \in ToolExes : resolved = Join(ToolDir, f, "\\")
            /\ ToolExes = {} => resolved = ""

C9_Witness ==
    /\ IsAppsCall
    /\ result.ok
    /\ Len(result.val) = 1
    /\ ToolDir \in DOMAIN winDirs
    /\ Len(winDirs[ToolDir].list) >= 2
    /\ winDirs[ToolDir].list[1] = "unins000.exe"
    /\ winDirs[ToolDir].list[2] = "app.exe"
    /\ result.val[1].path = Join(ToolDir, "app.exe", "\\")
-----------------------------------------------------------------------------
(* Names, checked under SpecName: one bundle or one registry entry whose     *)
(* name metadata takes every shape                                           *)

\* A key that the dictionary does not hold
Absent == [kind |-> "absent", s |-> ""]

PrimaryValues == {Absent, PString("Calc"), PString(""), PInteger}

SecondaryValues == {Absent, PString("CALC"), PString(""), PInteger}

\* The Info.plist dictionary with the two name keys as given
NameDict(primary, secondary) ==
    [k \in {key \in {"CFBundleDisplayName", "CFBundleName"} :
                (IF key = "CFBundleDisplayName" THEN primary ELSE secondary) # Absent} |->
        IF k = "CFBundleDisplayName" THEN primary ELSE secondary]

\* Bundle file names: a plain one and one whose stem is not valid Unicode
NameFiles == {"Cal.app", "?.app"}

InitMacName ==
    /\ platform = "macos"
    /\ pointerWidth = 64
    /\ files = {}
    /\ homeSet = FALSE
    /\ \E primary \in PrimaryValues, secondary \in SecondaryValues, file \in NameFiles :
          /\ macDirs = [d \in {ScanDirs[i] : i \in 1..3} |->
                          IF d = ScanDirs[1]
                          THEN Dir("dir", <<Bundle(file,
                                                   Plist("parsed", "dict",
                                                         NameDict(primary, secondary)),
                                                   OkMac)>>)
                          ELSE Dir("missing", <<>>)]
          /\ iconEnv = [p \in {Join(ScanDirs[1], file, "/")} |-> OkMac]
    /\ registry = NoRegistry
    /\ winDirs = <<>>
    /\ call = NoCall
    /\ result = NoCall
    /\ events = <<>>

\* The data of a DisplayName value: none, of size 0, an empty string, a
\* string, and a string stored without its terminator
DisplayNameData == {<<>>, <<Nul>>, Wide("Calc"), Units("Cal")}

InitWinName ==
    /\ platform = "windows"
    /\ pointerWidth = 64
    /\ files = {}
    /\ homeSet = FALSE
    /\ macDirs = NoMacDirs
    /\ \E present \in BOOLEAN, data \in DisplayNameData, version \in {Wide("1.0"), <<Nul>>} :
          registry = [k \in UninstallKeys |->
                        IF k = UninstallKey
                        THEN Key("key",
                                 <<Subkey("{1234}", TRUE,
                                          [v \in (IF present THEN {"DisplayName"} ELSE {})
                                                    \cup {"DisplayVersion"} |->
                                             IF v = "DisplayName" THEN data ELSE version])>>)
                        ELSE Key("absent", <<>>)]
    /\ winDirs = <<>>
    /\ iconEnv = <<>>
    /\ call = NoCall
    /\ result = NoCall
    /\ events = <<>>

InitName == InitMacName \/ InitWinName

NextName == GetInstalledApps \/ FindAppByName \/ DropResult

SpecName == InitName /\ [][NextName]_vars

\* C11: every AppInfo returned by get_installed_apps or find_app_by_name has
\* a non-empty name, whatever the bundle metadata or the DisplayName value holds
C11_NameNotEmpty ==
    /\ (IsAppsCall /\ result.ok) =>
          \A i \in 1..Len(result.val) : result.val[i].name # ""
    /\ (IsFindCall /\ result.ok) => result.val.name # ""

\* The string a name key provides, if it holds one
NameFrom(d, key) ==
    IF key \in DOMAIN d /\ d[key].kind = "string" THEN Some(d[key].s) ELSE None

\* The fallback chain as the claim words it: primary string, else secondary
\* string, else the file name stem, else "Unknown"
ClaimedName(entry) ==
    LET d == entry.plist.d
    IN  IF NameFrom(d, "CFBundleDisplayName").some
        THEN NameFrom(d, "CFBundleDisplayName").v
        ELSE IF NameFrom(d, "CFBundleName").some
        THEN NameFrom(d, "CFBundleName").v
        ELSE IF ~contains(file_stem(entry.file), InvalidUnit)
        THEN file_stem(entry.file)
        ELSE "Unknown"

\* C14: the name of a macOS entry is the primary key's string when it
\* provides one, else the secondary key's string, else the bundle's file name
\* stem, else "Unknown"; a primary key that holds no string does not hide the
\* secondary key
C14_NameFallback ==
    (platform = "macos" /\ IsAppsCall /\ result.ok) =>
        /\ Len(result.val) = Len(macDirs[ScanDirs[1]].list)
        /\ \A i \in 1..Len(result.val) :
              result.val[i].name = ClaimedName(macDirs[ScanDirs[1]].list[i])

-----------------------------------------------------------------------------
(* Repeated discovery, checked under SpecTwice: a caller keeps the result of *)
(* one get_installed_apps call and calls again                               *)

\* The sequences that hold the elements of list in another order
Reorderings(list) ==
    {[k \in 1..Len(list) |-> list[p[k]]] :
        p \in {q \in [1..Len(list) -> 1..Len(list)] :
                  \A i, j \in 1..Len(list) : i # j => q[i] # q[j]}} \ {list}

\* fs::read_dir promises no order: between two calls the listing of a
\* directory may come in another order although no file has changed
Relist ==
    /\ call.op = "get_installed_apps"
    /\ \E d \in DOMAIN macDirs :
          \E list \in Reorderings(macDirs[d].list) :
              macDirs' = [macDirs EXCEPT ![d] = Dir(macDirs[d].kind, list)]
    /\ UNCHANGED <<platform, pointerWidth, files, homeSet, registry, winDirs, iconEnv,
                   call, result, events>>

\* The caller, holding the result of get_installed_apps(n), calls it again
GetInstalledAppsAgain ==
    /\ call.op = "get_installed_apps"
    /\ \E o \in {get_installed_apps(call.icon_size)} :
          /\ call' = [op |-> "get_installed_apps_again", icon_size |-> call.icon_size,
                      first |-> result]
          /\ result' = o.r
          /\ events' = o.ev
          /\ UNCHANGED env

NextTwice == GetInstalledApps \/ Relist \/ GetInstalledAppsAgain \/ DropResult

SpecTwice == Init /\ [][NextTwice]_vars

IsAgainCall == call.op = "get_installed_apps_again"

\* How often x occurs in the sequence s
Occurrences(s, x) == Cardinality({i \in 1..Len(s) : s[i] = x})

SameMultiset(a, b) ==
    /\ Len(a) = Len(b)
    /\ \A i \in 1..Len(a) : Occurrences(a, a[i]) = Occurrences(b, a[i])

\* The number of candidates that parse, each location counted on its own
CandidateCount ==
    IF platform = "macos"
    THEN Len(MacExpectedIn(1)) + Len(MacExpectedIn(2)) + Len(MacExpectedIn(3))
    ELSE IF platform = "windows"
    THEN Len(WinExpectedIn(UninstallKey))
            + (IF pointerWidth = 64 THEN Len(WinExpectedIn(UninstallKeyWow64)) ELSE 0)
    ELSE 0

\* C12: a second get_installed_apps(n) on an unchanged system returns the
\* same multiset of entries as the first (or fails as the first did), and an
\* application present in several scanned locations is returned once per
\* location by both
C12_Idempotent ==
    IsAgainCall =>
        /\ result.ok = call.first.ok
        /\ ~result.ok => result = call.first
        /\ result.ok =>
              /\ SameMultiset(result.val, call.first.val)
              /\ Len(result.val) = CandidateCount
              /\ Len(call.first.val) = CandidateCount

C12_Witness ==
    /\ IsAgainCall
    /\ result.ok
    /\ Len(result.val) = 2
    /\ result.val[1].name = result.val[2].name
    /\ result.val[1].path # result.val[2].path
    /\ result.val = call.first.val

\* The second call returns the entries of the first in another order
C12_ReorderedWitness ==
    /\ IsAgainCall
    /\ result.ok
    /\ result.val # call.first.val
    /\ SameMultiset(result.val, call.first.val)

-----------------------------------------------------------------------------
(* Path resolution, checked under SpecPath: one registry entry with every   *)
(* shape of DisplayIcon and InstallLocation                                  *)

PathDirs ==
    AppDirs @@ ("C:\\Docs" :> Dir("dir", <<"readme.txt">>))

\* DisplayIcon data: a path with a resource index, a bare path, a path with
\* blanks around it, a quoted path, a directory, a path that is gone, and the
\* empty string
DisplayIconData ==
    { Wide("C:\\Calc\\calc.exe,0"), Wide("C:\\Tool\\tool.exe"),
      Wide(" C:\\Calc\\calc.exe ,0"), Wide("\"C:\\Calc\\calc.exe\",0"),
      Wide("C:\\Docs"), Wide("C:\\Gone\\gone.exe,1"), <<Nul>> }

InstallLocationData ==
    { Wide("C:\\Calc"), Wide("C:\\Tool"), Wide("C:\\Docs"), Wide("C:\\Gone") }

PathKey(icon, location) ==
    Subkey("{1234}", TRUE,
           [v \in {"DisplayName"} \cup (IF icon = <<>> THEN {} ELSE {"DisplayIcon"})
                   \cup (IF location = <<>> THEN {} ELSE {"InstallLocation"}) |->
              IF v = "DisplayName" THEN Wide("Calc")
              ELSE IF v = "DisplayIcon" THEN icon ELSE location])

InitPath ==
    /\ platform = "windows"
    /\ pointerWidth = 64
    /\ files = {}
    /\ homeSet = FALSE
    /\ macDirs = NoMacDirs
    /\ \E icon \in DisplayIconData \cup {<<>>}, location \in InstallLocationData \cup {<<>>} :
          registry = [k \in UninstallKeys |->
                        IF k = UninstallKey THEN Key("key", <<PathKey(icon, location)>>)
                        ELSE Key("absent", <<>>)]
    /\ winDirs = PathDirs
    /\ \E sc \in {OkWin, BadWin} :
          iconEnv = [p \in DOMAIN AppIconEnv \cup {"C:\\Docs"} |-> sc]
    /\ call = NoCall
    /\ result = NoCall
    /\ events = <<>>

NextPath == GetInstalledApps \/ DropResult

SpecPath == InitPath /\ [][NextPath]_vars

\* The text a terminated registry string holds
TextOf(data) == FromUnits(SubSeq(data, 1, Len(data) - 1))

\* The path part of "path,resource-index": the text before the first comma,
\* without the blanks around it
PathPart(text) ==
    LET n == CHOOSE k \in 0..Len(text) :
                /\ \A i \in 1..k : CharAt(text, i) # ","
                /\ k < Len(text) => CharAt(text, k + 1) = ","
        Blank(i, j) == \A m \in i..j : CharAt(text, m) = " "
        from == CHOOSE i \in 1..(n + 1) : Blank(1, i - 1) /\ (i <= n => CharAt(text, i) # " ")
        to == CHOOSE j \in (from - 1)..n : Blank(j + 1, n) /\ (j >= from => CharAt(text, j) # " ")
    IN  SubSeq(text, from, to)

\* The entry of the environment and what the claim expects its path to be
PathEntry == registry[UninstallKey].subkeys[1].values

ClaimedPath ==
    LET viaIcon == IF "DisplayIcon" \in DOMAIN PathEntry
                   THEN PathPart(TextOf(PathEntry["DisplayIcon"])) ELSE ""
        viaSearch == IF "InstallLocation" \in DOMAIN PathEntry
                     THEN find_main_executable(TextOf(PathEntry["InstallLocation"]))
                     ELSE None
    IN  IF "DisplayIcon" \in DOMAIN PathEntry /\ PathExists(viaIcon) THEN viaIcon
        ELSE IF viaSearch.some THEN viaSearch.v
        ELSE ""

\* C13: the path of a Windows entry is the path part of DisplayIcon when that
\* exists on disk, else the executable found in InstallLocation, else empty;
\* with an empty path no icon extraction is attempted and the icon is unset
C13_PathResolution ==
    (IsAppsCall /\ result.ok /\ Len(result.val) = 1) =>
        /\ result.val[1].path = ClaimedPath
        /\ result.val[1].path = "" =>
              /\ result.val[1].icon = None
              /\ ExtractorCalls(events) = 0

C13_Witness ==
    /\ IsAppsCall
    /\ call.icon_size > 0
    /\ result.ok
    /\ Len(result.val) = 1
    /\ "DisplayIcon" \in DOMAIN PathEntry
    /\ PathEntry["DisplayIcon"] = Wide("C:\\Gone\\gone.exe,1")
    /\ "InstallLocation" \in DOMAIN PathEntry
    /\ result.val[1].path = "C:\\Calc\\calc.exe"
    /\ result.val[1].icon # None

-----------------------------------------------------------------------------
(* Registry enumeration, checked under SpecEnum: uninstall keys whose        *)
(* subkeys include one with a name that does not fit the name buffer         *)

RECURSIVE Repeat(_, _)
Repeat(s, n) ==
    IF n = 0 THEN ""
    ELSE IF n % 2 = 1 THEN s \o Repeat(s, n - 1)
    ELSE Repeat(s \o s, n \div 2)

\* A subkey name of as many units as the buffer has: with its terminator it
\* does not fit
LongName == Repeat("k", SubkeyNameCapacity)

EnumPool ==
    { Subkey("Calc", TRUE, [v \in {"DisplayName"} |-> Wide("Calc")]),
      Subkey(LongName, TRUE, [v \in {"DisplayName"} |-> Wide("Long")]),
      Subkey("NoName", TRUE, [v \in {"DisplayVersion"} |-> Wide("2.0")]),
      Subkey("Locked", FALSE, [v \in {"DisplayName"} |-> Wide("Locked")]) }

InitEnum ==
    /\ platform = "windows"
    /\ pointerWidth \in {32, 64}
    /\ files = {}
    /\ homeSet = FALSE
    /\ macDirs = NoMacDirs
    /\ \E installs \in BoundedSeq(Placements(EnumPool, UninstallKeys), MaxApps),
          emptyKind \in {"absent", "key"} :
          /\ UniqueNames(installs)
          /\ registry = RegistryOf(installs, emptyKind)
    /\ winDirs = <<>>
    /\ iconEnv = <<>>
    /\ call = NoCall
    /\ result = NoCall
    /\ events = <<>>

NextEnum == GetInstalledApps \/ DropResult

SpecEnum == InitEnum /\ [][NextEnum]_vars

\* The keys get_installed_apps opens for enumeration
ScannedKeys ==
    {k \in UninstallKeys :
        /\ registry[k].kind = "key"
        /\ k = UninstallKey \/ pointerWidth = 64}

\* The part of the log between the opening and the closing of key
KeySegment(key) ==
    LET a == CHOOSE i \in 1..Len(events) : events[i] = Ev("RegOpenKeyExW.ok", key)
        b == CHOOSE i \in 1..Len(events) : events[i] = Ev("RegCloseKey", key)
    IN  SubSeq(events, a, b)

\* The indexes RegEnumKeyExW was called with, in call order
EnumeratedIndexes(log) ==
    LET calls == SelectSeq(log, LAMBDA e : e.op = "RegEnumKeyExW")
    IN  [i \in 1..Len(calls) |-> calls[i].arg]

\* The subkey paths parse_registry_app was called for
VisitedPaths(log) ==
    {log[i].arg : i \in {j \in 1..Len(log) :
                            log[j].op \in {"RegOpenKeyExW.ok", "RegOpenKeyExW.err"}}}

\* C15: the enumeration of an opened key asks for the indexes 0, 1, 2, ...
\* up to the one past the last subkey, where it stops, and every subkey is
\* visited; a subkey whose name does not fit the buffer does not keep the
\* subkeys after it from being visited
C15_EnumeratesEverySubkey ==
    (platform = "windows" /\ IsAppsCall) =>
        \A key \in ScannedKeys :
            LET subkeys == registry[key].subkeys
            IN  /\ EnumeratedIndexes(KeySegment(key))
                      = [i \in 1..(Len(subkeys) + 1) |-> ToString(i - 1)]
                /\ \A i \in 1..Len(subkeys) :
                      Len(subkeys[i].name) < SubkeyNameCapacity =>
                          Join(key, subkeys[i].name, "\\") \in VisitedPaths(KeySegment(key))

\* C15 for keys whose subkey names all fit the buffer
C15_EnumeratesWhenNamesFit ==
    (\A key \in ScannedKeys : \A i \in 1..Len(registry[key].subkeys) :
        Len(registry[key].subkeys[i].name) < SubkeyNameCapacity)
      => C15_EnumeratesEverySubkey

-----------------------------------------------------------------------------
(* Order of the COM teardown, checked under SpecWin *)

ComInitOps == {"CoInitialize.ok", "CoInitialize.err"}

\* The native calls and releases of window::get_file_icon after CoInitialize
ExtractionOps ==
    {"SHCreateItemFromParsingName.ok", "SHCreateItemFromParsingName.err",
     "GetImage.ok", "GetImage.err", "CoCreateInstance.ok", "CoCreateInstance.err",
     "CreateBitmapFromHBITMAP.ok", "CreateBitmapFromHBITMAP.err",
     "GetPixelFormat.ok", "GetPixelFormat.err", "CopyPixels.ok", "CopyPixels.err",
     "Release", "DeleteObject", "CoUninitialize"}

\* What one get_file_icon call that began at position i of the log did after
\* its CoInitialize: the extraction events up to the next CoInitialize
ExtractionFrom(i) ==
    LET later == {j \in (i + 1)..Len(events) : events[j].op \in ComInitOps}
        stop == IF later = {} THEN Len(events) + 1
                ELSE CHOOSE j \in later : \A k \in later : j <= k
    IN  SelectSeq(SubSeq(events, i + 1, stop - 1), LAMBDA e : e.op \in ExtractionOps)

Released(log, what) == Len(SelectSeq(log, LAMBDA e : e = Ev("Release", what)))

\* C16: in every Windows get_file_icon call that initialized COM,
\* CoUninitialize happens once and is the last thing the call does: the
\* image factory, the imaging factory and the imaging bitmap that were
\* obtained have been released and the bitmap handle deleted before it, and
\* no COM call follows it
C16_TeardownLast ==
    (platform = "windows" /\ call # NoCall) =>
        \A i \in 1..Len(events) :
            events[i].op = "CoInitialize.ok" =>
                LET body == ExtractionFrom(i)
                IN  /\ body # <<>>
                    /\ body[Len(body)].op = "CoUninitialize"
                    /\ CountOp(body, "CoUninitialize") = 1
                    /\ Released(body, "image_factory")
                          = CountOp(body, "SHCreateItemFromParsingName.ok")
                    /\ Released(body, "imaging_factory") = CountOp(body, "CoCreateInstance.ok")
                    /\ Released(body, "wic_bitmap") = CountOp(body, "CreateBitmapFromHBITMAP.ok")
                    /\ CountOp(body, "DeleteObject") = CountOp(body, "GetImage.ok")

C16_Witness ==
    /\ IsFileIconCall
    /\ result.ok
    /\ CountOp(events, "CoInitialize.ok") = 1
    /\ events[Len(events)].op = "CoUninitialize"
    /\ Released(events, "image_factory") = 1
    /\ Released(events, "imaging_factory") = 1
    /\ Released(events, "wic_bitmap") = 1
    /\ CountOp(events, "DeleteObject") = 1

====
